---- MODULE Spec2Model ----
(***************************************************************************)
(* FastqFileNameChecker (frmatcher/fastq_file_name_checker.py): the        *)
(* constructor, pattern loading and compilation, the optional uniform-     *)
(* length check and categorize_fastq_files, as a state machine of one      *)
(* checker object and its caller.                                          *)
(*                                                                         *)
(* A Python str is a sequence of one-character strings.  A regular         *)
(* expression is a sequence of tokens: a literal character, "." (any       *)
(* character), "^" (start of string), "\\d+" (one or more digits), and the *)
(* tokens of the templates of compile_patterns: ".*", "(", ")", "[._-]".   *)
(***************************************************************************)
EXTENDS Naturals, Sequences, FiniteSets, TLC

VARIABLES
    pc,                 \* the caller's position: "start", "constructed",
                        \* "init_raised", "returned", "raised"
    config_path,        \* the constructor's config_path argument and what it names
    length_check,       \* the constructor's length_check argument
    filenames,          \* self.filenames
    verbose,            \* self.verbose
    sink_level,         \* the level of the only log handler
    patterns,           \* self.patterns (NoneVal or Some(dict)); Unset before __init__ sets it
    compiled_patterns,  \* self.compiled_patterns; Unset while the attribute does not exist
    categorized_files,  \* the local categorized_files of categorize_fastq_files
    result,             \* the value categorize_fastq_files returned (NoneVal: nothing returned)
    raised,             \* the exception that reached the caller (NoneVal: none)
    log                 \* the messages logger.error handed to the sink, in order

vars == <<pc, config_path, length_check, filenames, verbose, sink_level, patterns,
          compiled_patterns, categorized_files, result, raised, log>>

----------------------------------------------------------------------------
(* Values *)

NoneVal == [none |-> TRUE]
Some(v) == [none |-> FALSE, val |-> v]
Unset == [unset |-> TRUE]

\* Code points of the characters the model's strings are made of (Python
\* compares str values code point by code point).
Ord(c) ==
    CASE c = "-" -> 45
      [] c = "." -> 46
      [] c = "/" -> 47
      [] c = "1" -> 49
      [] c = "2" -> 50
      [] c = "A" -> 65
      [] c = "_" -> 95
      [] c = "a" -> 97
      [] c = "f" -> 102
      [] c = "i" -> 105

Digits == {"0", "1", "2", "3", "4", "5", "6", "7", "8", "9"}

\* str < str
RECURSIVE StrLess(_, _)
StrLess(s, t) ==
    IF t = <<>> THEN FALSE
    ELSE IF s = <<>> THEN TRUE
    ELSE IF Head(s) # Head(t) THEN Ord(Head(s)) < Ord(Head(t))
    ELSE StrLess(Tail(s), Tail(t))

\* list.sort() on a list of str
RECURSIVE Insert(_, _)
Insert(x, sorted) ==
    IF sorted = <<>> THEN <<x>>
    ELSE IF StrLess(x, Head(sorted)) THEN <<x>> \o sorted
    ELSE <<Head(sorted)>> \o Insert(x, Tail(sorted))

RECURSIVE SortList(_)
SortList(l) == IF l = <<>> THEN <<>> ELSE Insert(Head(l), SortList(Tail(l)))

\* os.path.basename(full_path): what follows the last "/"
RECURSIVE BaseName(_)
BaseName(p) ==
    IF p = <<>> THEN <<>>
    ELSE IF p[Len(p)] = "/" THEN <<>>
    ELSE Append(BaseName(SubSeq(p, 1, Len(p) - 1)), p[Len(p)])

----------------------------------------------------------------------------
(* Regular expressions *)

\* The tokens of regex from position ti on match s from offset si on (si
\* characters already consumed); a match need not reach the end of s.
RECURSIVE MatchFrom(_, _, _, _)
MatchFrom(regex, ti, s, si) ==
    IF ti > Len(regex) THEN TRUE
    ELSE LET tok == regex[ti] IN
         CASE tok \in {"(", ")"} -> MatchFrom(regex, ti + 1, s, si)
           [] tok = ".*" -> \E k \in si..Len(s) : MatchFrom(regex, ti + 1, s, k)
           [] tok = "^" -> si = 0 /\ MatchFrom(regex, ti + 1, s, si)
           [] tok = "\\d+" ->
                \E k \in (si + 1)..Len(s) :
                    /\ \A j \in (si + 1)..k : s[j] \in Digits
                    /\ MatchFrom(regex, ti + 1, s, k)
           [] tok = "[._-]" ->
                /\ si < Len(s)
                /\ s[si + 1] \in {".", "_", "-"}
                /\ MatchFrom(regex, ti + 1, s, si + 1)
           [] tok = "." -> si < Len(s) /\ MatchFrom(regex, ti + 1, s, si + 1)
           [] OTHER ->
                /\ si < Len(s)
                /\ s[si + 1] = tok
                /\ MatchFrom(regex, ti + 1, s, si + 1)

\* pattern.search(filename): a match starting at some offset
Search(regex, s) == \E start \in 0..Len(s) : MatchFrom(regex, 1, s, start)

\* any(pattern.search(filename) for pattern in group)
AnyMatch(group, s) == \E k \in 1..Len(group) : Search(group[k], s)

\* TemplateSep without the separator class
TemplateNoSeparator(pattern) == <<".*", "(">> \o pattern \o <<")", ".*">>

\* f".*({pattern})([._-]).*"
TemplateSep(pattern) == <<".*", "(">> \o pattern \o <<")", "(", "[._-]", ")", ".*">>

\* f".*({pattern}).*"
TemplatePlain(pattern) == <<".*", "(">> \o pattern \o <<")", ".*">>

\* patterns.get(key, [])
Get(d, key) == IF key \in DOMAIN d THEN d[key] ELSE <<>>

compile_patterns(p) ==
    [R1 |-> [k \in 1..Len(Get(p, "r1")) |-> TemplateSep(Get(p, "r1")[k])],
     R2 |-> [k \in 1..Len(Get(p, "r2")) |-> TemplateSep(Get(p, "r2")[k])],
     ignore |-> [k \in 1..Len(Get(p, "ignore")) |-> TemplatePlain(Get(p, "ignore")[k])]]

----------------------------------------------------------------------------
(* Logging and exceptions *)

\* loguru's severity numbers
LevelNo(level) == IF level = "DEBUG" THEN 10 ELSE 40

\* logger.error(msg) with one handler of level sink: the handler prints the
\* message when the handler's level is not above ERROR
Emit(sink, l, msg) ==
    IF LevelNo(sink) <= LevelNo("ERROR") THEN Append(l, [level |-> "ERROR", msg |-> msg]) ELSE l

LengthMsg == [text |-> "Filenames do not all have the same length"]
UnbalancedMsg(len_r1, len_r2) == [text |-> "Unbalanced categories", R1 |-> len_r1, R2 |-> len_r2]

Exc(type, msg) == [type |-> type, msg |-> msg]

----------------------------------------------------------------------------
(* load_patterns, _check_filename_lengths *)

\* What load_patterns(config_path) does with the file config_path names:
\* [exc |-> the exception raised or NoneVal, value |-> the value returned,
\*  log |-> the log afterwards]
load_patterns(file, sink, l) ==
    IF file.state = "missing"
    THEN [exc |-> Some(Exc("FileNotFoundError", [text |-> "Configuration file not found"])),
          value |-> NoneVal,
          log |-> Emit(sink, l, [text |-> "Configuration file not found"])]
    ELSE IF file.state = "invalid"
    THEN [exc |-> Some(Exc("YAMLError", [text |-> "yaml"])),
          value |-> NoneVal,
          log |-> Emit(sink, l, [text |-> "Error parsing YAML configuration"])]
    ELSE IF file.state = "nokey"
    THEN [exc |-> Some(Exc("KeyError", [text |-> "patterns"])), value |-> NoneVal, log |-> l]
    ELSE [exc |-> NoneVal, value |-> file.patterns, log |-> l]

\* bool(self.patterns): None and the empty dict are false
Truthy(p) == p # NoneVal /\ DOMAIN p.val # {}

\* LengthsDiffer on the base names instead of the strings given
LengthsDifferBaseName(fns) == Cardinality({Len(BaseName(fns[k])) : k \in 1..Len(fns)}) > 1

\* len(set(lengths)) > 1
LengthsDiffer(fns) == Cardinality({Len(fns[k]) : k \in 1..Len(fns)}) > 1

\* _check_filename_lengths(): [exc, log]
check_filename_lengths(fns, sink, l) ==
    IF LengthsDiffer(fns)
    THEN [exc |-> Some(Exc("FilenameLengthMismatchError", LengthMsg)),
          log |-> Emit(sink, l, LengthMsg)]
    ELSE [exc |-> NoneVal, log |-> l]

----------------------------------------------------------------------------
(* categorize_fastq_files *)

EmptyBuckets == [R1 |-> <<>>, R2 |-> <<>>, ignored |-> <<>>]

\* Place without the final else branch
PlaceDropUnmatched(acc, full_path, compiled) ==
    LET filename == BaseName(full_path) IN
    IF AnyMatch(compiled.ignore, filename)
    THEN [acc EXCEPT !.ignored = Append(@, full_path)]
    ELSE IF AnyMatch(compiled.R1, filename)
    THEN [acc EXCEPT !.R1 = Append(@, full_path)]
    ELSE IF AnyMatch(compiled.R2, filename)
    THEN [acc EXCEPT !.R2 = Append(@, full_path)]
    ELSE acc

\* Place with the R1 test before the ignore test
PlaceR1First(acc, full_path, compiled) ==
    LET filename == BaseName(full_path) IN
    IF AnyMatch(compiled.R1, filename)
    THEN [acc EXCEPT !.R1 = Append(@, full_path)]
    ELSE IF AnyMatch(compiled.ignore, filename)
    THEN [acc EXCEPT !.ignored = Append(@, full_path)]
    ELSE IF AnyMatch(compiled.R2, filename)
    THEN [acc EXCEPT !.R2 = Append(@, full_path)]
    ELSE [acc EXCEPT !.ignored = Append(@, full_path)]

\* Place matching the whole path instead of its base name
PlaceFullPath(acc, full_path, compiled) ==
    IF AnyMatch(compiled.ignore, full_path)
    THEN [acc EXCEPT !.ignored = Append(@, full_path)]
    ELSE IF AnyMatch(compiled.R1, full_path)
    THEN [acc EXCEPT !.R1 = Append(@, full_path)]
    ELSE IF AnyMatch(compiled.R2, full_path)
    THEN [acc EXCEPT !.R2 = Append(@, full_path)]
    ELSE [acc EXCEPT !.ignored = Append(@, full_path)]

\* One iteration of the loop over self.filenames
Place(acc, full_path, compiled) ==
    LET filename == BaseName(full_path) IN
    IF AnyMatch(compiled.ignore, filename)
    THEN [acc EXCEPT !.ignored = Append(@, full_path)]
    ELSE IF AnyMatch(compiled.R1, filename)
    THEN [acc EXCEPT !.R1 = Append(@, full_path)]
    ELSE IF AnyMatch(compiled.R2, filename)
    THEN [acc EXCEPT !.R2 = Append(@, full_path)]
    ELSE [acc EXCEPT !.ignored = Append(@, full_path)]

\* for full_path in self.filenames: ...
RECURSIVE CategorizeLoop(_, _, _, _)
CategorizeLoop(fns, i, acc, compiled) ==
    IF i > Len(fns) THEN acc
    ELSE CategorizeLoop(fns, i + 1, Place(acc, fns[i], compiled), compiled)

\* SortBuckets without the sort
SortBucketsNone(b) == b

\* for category in categorized_files: categorized_files[category].sort()
SortBuckets(b) == [R1 |-> SortList(b.R1), R2 |-> SortList(b.R2), ignored |-> SortList(b.ignored)]

\* Unbalanced testing only for too many R1 files
UnbalancedGreater(b) == Len(b.R1) > Len(b.R2)

\* if len_r1 != len_r2
Unbalanced(b) == Len(b.R1) # Len(b.R2)

\* categorize_fastq_files() of a checker with these attributes:
\* [files |-> the local categorized_files when the call ended (NoneVal: never
\*  assigned), result |-> the value returned, exc |-> the exception raised,
\*  log |-> the log afterwards]
categorize_fastq_files(fns, compiled, sink, l) ==
    IF compiled = Unset
    THEN [files |-> NoneVal, result |-> NoneVal,
          exc |-> Some(Exc("PatternsNotLoadedError", [text |-> "Patterns not loaded or compiled."])),
          log |-> l]
    ELSE LET b == SortBuckets(CategorizeLoop(fns, 1, EmptyBuckets, compiled)) IN
         IF Unbalanced(b)
         THEN [files |-> Some(b), result |-> NoneVal,
               exc |-> Some(Exc("FilenameLengthMismatchError", UnbalancedMsg(Len(b.R1), Len(b.R2)))),
               log |-> Emit(sink, l, UnbalancedMsg(Len(b.R1), Len(b.R2)))]
         ELSE [files |-> Some(b), result |-> Some(b), exc |-> NoneVal, log |-> l]

----------------------------------------------------------------------------
(* The operations *)

\* FastqFileNameChecker(fns, config_path=cfg, length_check=lc, verbose=vb)
FastqFileNameChecker(fns, cfg, lc, vb) ==
    /\ pc = "start"
    /\ LET sink == IF vb THEN "DEBUG" ELSE "ERROR"
           loaded == IF cfg = NoneVal
                     THEN [exc |-> NoneVal, value |-> NoneVal, log |-> log]
                     ELSE load_patterns(cfg.val, sink, log)
           checked == IF lc
                      THEN check_filename_lengths(fns, sink, loaded.log)
                      ELSE [exc |-> NoneVal, log |-> loaded.log]
       IN  /\ config_path' = cfg
           /\ length_check' = lc
           /\ filenames' = fns
           /\ verbose' = vb
           /\ sink_level' = sink
           /\ IF loaded.exc # NoneVal
              THEN /\ patterns' = Unset
                   /\ compiled_patterns' = Unset
                   /\ raised' = loaded.exc
                   /\ log' = loaded.log
                   /\ pc' = "init_raised"
              ELSE /\ patterns' = loaded.value
                   /\ compiled_patterns' = IF Truthy(loaded.value)
                                           THEN compile_patterns(loaded.value.val)
                                           ELSE Unset
                   /\ raised' = checked.exc
                   /\ log' = checked.log
                   /\ pc' = IF checked.exc # NoneVal THEN "init_raised" ELSE "constructed"
    /\ UNCHANGED <<categorized_files, result>>

\* checker.patterns = p, by the caller, on a checker that loaded no patterns
Inject(p) ==
    /\ pc = "constructed"
    /\ patterns = NoneVal
    /\ patterns' = Some(p)
    /\ UNCHANGED <<pc, config_path, length_check, filenames, verbose, sink_level,
                   compiled_patterns, categorized_files, result, raised, log>>

\* checker.categorize_fastq_files()
Categorize ==
    /\ pc = "constructed"
    /\ LET out == categorize_fastq_files(filenames, compiled_patterns, sink_level, log) IN
       /\ categorized_files' = out.files
       /\ result' = out.result
       /\ raised' = out.exc
       /\ log' = out.log
       /\ pc' = IF out.exc # NoneVal THEN "raised" ELSE "returned"
    /\ UNCHANGED <<config_path, length_check, filenames, verbose, sink_level, patterns,
                   compiled_patterns>>

----------------------------------------------------------------------------
(* Inputs *)

MaxCallerFiles == 2
MaxFiles == 3
MaxNameLen == 4

\* list arguments of at most n elements of S; a str of at most n characters
Lists(S, n) == UNION {[1..k -> S] : k \in 0..n}

\* File paths, short forms of the names of the test and of paths with a
\* directory part: with the fragments of TestPatterns, an R1 name, an R2 name,
\* one matching ignore and r1, one matching r1 and r2, one ending in the r1
\* fragment (matching nothing), two with fragments in the directory part, one
\* matching the ignore fragment with digits.
Names ==
    {<<"a", "_", "1", ".", "f">>,
     <<"a", "_", "2", ".", "f">>,
     <<"i", "_", "1", ".", "f">>,
     <<"a", "_", "1", "_", "2", ".">>,
     <<"a", "_", "1">>,
     <<"i", "_", "/", "a", "_", "1", ".", "f">>,
     <<"_", "1", ".", "/", "a", "_", "2", ".", "f">>,
     <<"A", "_", "i", "2", "_", "1">>}

\* The pattern set of tests/test_fastq_file_name_checker.py, one fragment
\* per read group
TestPatterns ==
    [r1 |-> <<<<"_", "1">>>>,
     r2 |-> <<<<"_", "2">>>>,
     ignore |-> <<<<"^", "i", "_">>, <<"_", "i", "\\d+">>>>]

EmptyDict == [k \in {} |-> <<>>]

PatternSets ==
    {TestPatterns,
     EmptyDict,
     [r1 |-> <<<<"_", "1">>>>],
     [r1 |-> <<>>, r2 |-> <<>>, ignore |-> <<>>]}

\* A configuration file that parses and has the key "patterns"
ConfigOk(p) == Some([state |-> "ok", patterns |-> Some(p)])

ConfigPaths ==
    {NoneVal, Some([state |-> "missing"]), Some([state |-> "invalid"]), Some([state |-> "nokey"])}
        \cup {ConfigOk(p) : p \in PatternSets}

\* Every str of at most MaxNameLen of these characters, and pattern sets of
\* literal fragments: one r1 or r2 fragment, with or without an ignore fragment
MatchChars == {"/", "_", "1", ".", "-"}
AllNames == Lists(MatchChars, MaxNameLen)
Fragments == {<<"_", "1">>, <<"1">>}
LiteralPatternSets ==
    {[r1 |-> <<f>>] : f \in Fragments}
        \cup {[r2 |-> <<f>>] : f \in Fragments}
        \cup {[r1 |-> <<f>>, ignore |-> <<g>>] : f \in Fragments, g \in Fragments}
        \cup {[r2 |-> <<f>>, ignore |-> <<g>>] : f \in Fragments, g \in Fragments}

----------------------------------------------------------------------------
(* Specifications *)

Init ==
    /\ pc = "start"
    /\ config_path = NoneVal
    /\ length_check = FALSE
    /\ filenames = <<>>
    /\ verbose = FALSE
    /\ sink_level = "DEBUG"
    /\ patterns = Unset
    /\ compiled_patterns = Unset
    /\ categorized_files = NoneVal
    /\ result = NoneVal
    /\ raised = NoneVal
    /\ log = <<>>

\* The caller constructs a checker: any configuration, any flags
Construct ==
    /\ pc = "start"
    /\ \E fns \in Lists(Names, MaxCallerFiles), cfg \in ConfigPaths,
          lc \in BOOLEAN, vb \in BOOLEAN :
           FastqFileNameChecker(fns, cfg, lc, vb)

\* The caller injects a pattern set
InjectPatterns == pc = "constructed" /\ \E p \in PatternSets : Inject(p)

Next ==
    \/ Construct
    \/ InjectPatterns
    \/ Categorize

Spec == Init /\ [][Next]_vars

\* The caller constructs a checker from a configuration file whose pattern
\* set is not empty, without the length check
ConstructLoaded ==
    /\ pc = "start"
    /\ \E fns \in Lists(Names, MaxFiles), p \in PatternSets \ {EmptyDict} :
           FastqFileNameChecker(fns, ConfigOk(p), FALSE, FALSE)

NextCategorize ==
    \/ ConstructLoaded
    \/ Categorize

SpecCategorize == Init /\ [][NextCategorize]_vars

\* The caller constructs a checker from the configuration file of the test's
\* pattern set, without the length check
ConstructTest ==
    /\ pc = "start"
    /\ \E fns \in Lists(Names, MaxFiles) :
           FastqFileNameChecker(fns, ConfigOk(TestPatterns), FALSE, FALSE)

NextOrder ==
    \/ ConstructTest
    \/ Categorize

SpecOrder == Init /\ [][NextOrder]_vars

\* The caller constructs a checker of one file, any short name, with literal
\* fragments
ConstructSingle ==
    /\ pc = "start"
    /\ \E name \in AllNames, p \in LiteralPatternSets :
           FastqFileNameChecker(<<name>>, ConfigOk(p), FALSE, FALSE)

NextMatch ==
    \/ ConstructSingle
    \/ Categorize

SpecMatch == Init /\ [][NextMatch]_vars

----------------------------------------------------------------------------
(* Properties *)

Range(q) == {q[k] : k \in 1..Len(q)}
Count(x, q) == Cardinality({k \in 1..Len(q) : q[k] = x})

\* categorize_fastq_files has ended
Done == pc \in {"returned", "raised"}

\* categorize_fastq_files has ended after classifying the filenames
Classified == Done /\ categorized_files # NoneVal

\* The exception that reached the caller is of this type
Raised(type) == raised # NoneVal /\ raised.val.type = type

\* Some compiled predicate of the group matches the base name of f
Matches(group, f) == AnyMatch(compiled_patterns[group], BaseName(f))

\* f is in this bucket of categorized_files and in no other
InOnly(bucket, f) ==
    \A c \in {"R1", "R2", "ignored"} : (f \in Range(categorized_files.val[c])) <=> (c = bucket)

\* The number of filenames (duplicates counted) in the bucket the priority
\* rule gives them
NumR1 == Cardinality({k \in 1..Len(filenames) :
             ~Matches("ignore", filenames[k]) /\ Matches("R1", filenames[k])})
NumR2 == Cardinality({k \in 1..Len(filenames) :
             /\ ~Matches("ignore", filenames[k])
             /\ ~Matches("R1", filenames[k])
             /\ Matches("R2", filenames[k])})

\* C1: when categorize_fastq_files returns, the three buckets together are
\* the input list as a multiset: every string occurs in the buckets as often
\* as in the input, and in one bucket only.
PartitionComplete ==
    pc = "returned" =>
        LET b == result.val IN
        \A x \in Range(filenames) \cup Range(b.R1) \cup Range(b.R2) \cup Range(b.ignored) :
            /\ Count(x, filenames) = Count(x, b.R1) + Count(x, b.R2) + Count(x, b.ignored)
            /\ Cardinality({c \in {"R1", "R2", "ignored"} : x \in Range(b[c])}) = 1

\* C1 witness: a returned result with a file in each of R1, R2 and ignored
PartitionCompleteWitness ==
    /\ pc = "returned"
    /\ result.val.R1 # <<>>
    /\ result.val.R2 # <<>>
    /\ result.val.ignored # <<>>

\* C2: each filename is classified by strict priority: ignored when an ignore
\* predicate matches, else R1 when an r1 predicate matches, else R2 when an
\* r2 predicate matches, else ignored.
PriorityOrder ==
    Classified =>
        \A f \in Range(filenames) :
            /\ Matches("ignore", f) => InOnly("ignored", f)
            /\ (~Matches("ignore", f) /\ Matches("R1", f)) => InOnly("R1", f)
            /\ (~Matches("ignore", f) /\ ~Matches("R1", f) /\ Matches("R2", f))
                   => InOnly("R2", f)
            /\ (~Matches("ignore", f) /\ ~Matches("R1", f) /\ ~Matches("R2", f))
                   => InOnly("ignored", f)

\* C2 witness: a returned result where a file matching ignore and r1 is
\* ignored and a file matching r1 and r2 (not ignore) is R1
PriorityOrderWitness ==
    /\ pc = "returned"
    /\ \E f \in Range(result.val.ignored) : Matches("ignore", f) /\ Matches("R1", f)
    /\ \E f \in Range(result.val.R1) : Matches("R1", f) /\ Matches("R2", f)

\* C3 as stated: an unbalanced classification fails with
\* UnbalancedCategoriesError and returns nothing; a balanced one succeeds.
BalanceUnbalancedCategoriesError ==
    (Done /\ compiled_patterns # Unset) =>
        IF NumR1 # NumR2
        THEN pc = "raised" /\ Raised("UnbalancedCategoriesError") /\ result = NoneVal
        ELSE pc = "returned" /\ raised = NoneVal /\ result # NoneVal

\* C3 amended: an unbalanced classification fails with
\* FilenameLengthMismatchError, the error of the length check, whose message
\* carries both counts, and returns nothing; a balanced one (both counts zero
\* included) succeeds.
BalanceCheck ==
    (Done /\ compiled_patterns # Unset) =>
        IF NumR1 # NumR2
        THEN /\ pc = "raised"
             /\ raised = Some(Exc("FilenameLengthMismatchError", UnbalancedMsg(NumR1, NumR2)))
             /\ result = NoneVal
        ELSE pc = "returned" /\ raised = NoneVal /\ result # NoneVal

\* C3 witness: one R1 file, no R2 file: the call raised
BalanceCheckWitness ==
    /\ pc = "raised"
    /\ compiled_patterns # Unset
    /\ NumR1 = 1
    /\ NumR2 = 0

\* C4: a checker constructed with config_path=None whose patterns attribute
\* was assigned afterwards (here the pattern set of the test) categorizes with
\* the injected patterns and does not fail with PatternsNotLoadedError.
InjectedPatternsCategorize ==
    (Done /\ config_path = NoneVal /\ patterns = Some(TestPatterns)) =>
        /\ ~Raised("PatternsNotLoadedError")
        /\ categorized_files =
               Some(SortBuckets(CategorizeLoop(filenames, 1, EmptyBuckets,
                                               compile_patterns(patterns.val))))

\* C5: with literal fragments, an r1 or r2 predicate matches a base name
\* exactly where the fragment is followed at once by ".", "_" or "-" (so not
\* where the fragment ends the name), an ignore predicate wherever the
\* fragment occurs, the end of the name included.
OccursAt(frag, s, i) == i + Len(frag) - 1 <= Len(s) /\ SubSeq(s, i, i + Len(frag) - 1) = frag
Occurs(group, s) == \E n \in 1..Len(group), i \in 1..Len(s) : OccursAt(group[n], s, i)
FollowedBySeparator(group, s) ==
    \E n \in 1..Len(group), i \in 1..Len(s) :
        /\ OccursAt(group[n], s, i)
        /\ i + Len(group[n]) <= Len(s)
        /\ s[i + Len(group[n])] \in {".", "_", "-"}
EndsWith(frag, s) == Len(frag) <= Len(s) /\ OccursAt(frag, s, Len(s) - Len(frag) + 1)

SeparatorRequirement ==
    Classified =>
        \A f \in Range(filenames) :
            LET base == BaseName(f)
                p == patterns.val
                ign == Occurs(Get(p, "ignore"), base)
                m1 == FollowedBySeparator(Get(p, "r1"), base)
                m2 == FollowedBySeparator(Get(p, "r2"), base)
            IN  InOnly(IF ign THEN "ignored"
                       ELSE IF m1 THEN "R1"
                       ELSE IF m2 THEN "R2"
                       ELSE "ignored", f)

\* C5 witness: the only pattern is an r1 fragment, the base name ends in it
\* and holds it nowhere else, and the file was returned as ignored
SeparatorRequirementWitness ==
    /\ pc = "returned"
    /\ DOMAIN patterns.val = {"r1"}
    /\ \E f \in Range(result.val.ignored) :
           /\ EndsWith(patterns.val.r1[1], BaseName(f))
           /\ \A i \in 1..Len(BaseName(f)) :
                  OccursAt(patterns.val.r1[1], BaseName(f), i)
                      => i = Len(BaseName(f)) - Len(patterns.val.r1[1]) + 1

\* C6: every bucket is in ascending str order, and every permutation of the
\* input gives the same buckets, or the same error.
IsSorted(q) == \A i \in 1..(Len(q) - 1) : ~StrLess(q[i + 1], q[i])
Permuted(q) == {[k \in 1..Len(q) |-> q[sigma[k]]] : sigma \in Permutations(1..Len(q))}

SortedAndOrderIndependent ==
    Classified =>
        /\ \A c \in {"R1", "R2", "ignored"} : IsSorted(categorized_files.val[c])
        /\ \A q \in Permuted(filenames) :
               LET o == categorize_fastq_files(q, compiled_patterns, sink_level, <<>>) IN
               o.result = result /\ o.exc = raised

\* C6 witness: a returned result with two ignored files that the input gave
\* in descending order
SortedAndOrderIndependentWitness ==
    /\ pc = "returned"
    /\ \E i \in 1..Len(filenames), j \in 1..Len(filenames) :
           /\ i < j
           /\ StrLess(filenames[j], filenames[i])
           /\ {filenames[i], filenames[j]} \subseteq Range(result.val.ignored)

\* C7: a filename lands in the bucket its base name alone would land in,
\* whatever its directory part holds, two filenames of one base name land in
\* the same bucket, and the buckets hold the strings as given.
BaseNameDecides ==
    Classified =>
        /\ \A f \in Range(filenames) :
               LET alone == CategorizeLoop(<<BaseName(f)>>, 1, EmptyBuckets, compiled_patterns) IN
               \A c \in {"R1", "R2", "ignored"} :
                   (f \in Range(categorized_files.val[c])) <=> (alone[c] # <<>>)
        /\ \A f \in Range(filenames), g \in Range(filenames) :
               BaseName(f) = BaseName(g) =>
                   \A c \in {"R1", "R2", "ignored"} :
                       (f \in Range(categorized_files.val[c]))
                           <=> (g \in Range(categorized_files.val[c]))
        /\ \A c \in {"R1", "R2", "ignored"} :
               Range(categorized_files.val[c]) \subseteq Range(filenames)

\* C7 witness: a returned R1 file with a directory part, whose whole path
\* matches an ignore predicate
BaseNameDecidesWitness ==
    /\ pc = "returned"
    /\ \E f \in Range(result.val.R1) :
           BaseName(f) # f /\ AnyMatch(compiled_patterns.ignore, f)

\* C8: the constructor fails with FilenameLengthMismatchError exactly when
\* length_check is set and the strings given differ in length (the
\* configuration having loaded); categorization then runs only on lists that
\* passed, and what the checker holds and returns is what it holds and
\* returns without the check.
ConfigLoads == config_path = NoneVal \/ config_path.val.state = "ok"
ConfigPatterns == IF config_path = NoneVal THEN NoneVal ELSE config_path.val.patterns
ConfigCompiled ==
    IF Truthy(ConfigPatterns) THEN compile_patterns(ConfigPatterns.val) ELSE Unset
SomeLengthsDiffer ==
    \E i \in 1..Len(filenames), j \in 1..Len(filenames) : Len(filenames[i]) # Len(filenames[j])

LengthCheck ==
    (pc # "start" /\ ConfigLoads) =>
        /\ (pc = "init_raised") <=> (length_check /\ SomeLengthsDiffer)
        /\ pc = "init_raised"
               => raised = Some(Exc("FilenameLengthMismatchError", LengthMsg))
        /\ pc # "init_raised" => compiled_patterns = ConfigCompiled
        /\ Done =>
               LET o == categorize_fastq_files(filenames, ConfigCompiled, sink_level, <<>>) IN
               /\ o.files = categorized_files
               /\ o.result = result
               /\ o.exc = raised

\* C8 witness: the check was asked for and failed on two strings of equal
\* base name length and different length
LengthCheckWitness ==
    /\ pc = "init_raised"
    /\ length_check
    /\ Raised("FilenameLengthMismatchError")
    /\ \E i \in 1..Len(filenames), j \in 1..Len(filenames) :
           /\ Len(filenames[i]) # Len(filenames[j])
           /\ Len(BaseName(filenames[i])) = Len(BaseName(filenames[j]))

\* C9: every error the checker raises (configuration not found, parse
\* failure, patterns not loaded, length mismatch, unbalanced categories) was
\* logged at error level before it reached the caller.
ErrorsLogged ==
    (\/ Raised("FileNotFoundError")
     \/ Raised("YAMLError")
     \/ Raised("PatternsNotLoadedError")
     \/ Raised("FilenameLengthMismatchError"))
        => (log # <<>> /\ log[Len(log)].level = "ERROR")

\* C10: with any pattern set supplied at construction, groups missing or
\* empty, categorization does not fail with PatternsNotLoadedError, and an
\* empty filename list gives three empty buckets.
SuppliedPatternSetCategorizes ==
    (Done /\ config_path # NoneVal) =>
        /\ ~Raised("PatternsNotLoadedError")
        /\ filenames = <<>> => result = Some(EmptyBuckets)

====
